---- MODULE Spec2Model ----
(***************************************************************************)
(* Harry's Reading List (app.js): the book collection with its persistent *)
(* store, import / export, and the cover resolver with its cache.         *)
(*                                                                         *)
(* JavaScript values that can have more than one type are tagged records  *)
(* (JNull, JStr, JNum, JInf).  JSON text is a domain of its own, written   *)
(* by JSON.stringify and read by JSON.parse: it has no non-finite number,  *)
(* and it has number literals (JBig) no double can hold.                   *)
(***************************************************************************)
EXTENDS Integers, Sequences, FiniteSets, TLC

VARIABLES
    books,        \* let books = []            (app.js:20)
    lsBooks,      \* localStorage[STORAGE_KEY] (app.js:8)
    toast,        \* text of the last showToast call
    exported,     \* the document of the last export, while books is as exported
    lsCovers,     \* localStorage[COVER_CACHE_KEY] (app.js:39)
    cards,        \* the cards of the current grid the IntersectionObserver watches
    calls,        \* the invocations of fetchCoverForBook that have not returned
    returned,     \* the invocation of fetchCoverForBook that returned last
    completed,    \* cache keys for which some fetchCoverForBook call has returned
    phase,        \* init(): "boot" before it ran, then "ready", or "error" if it threw
    filterState,  \* const filterState       (app.js:24-30)
    searchInput,  \* value of the #searchInput element
    listSortState,\* let listSortState       (app.js:36)
    currentView,  \* let currentView         (app.js:33)
    filtered,     \* what getFilteredBooks returned to the last renderAll, if it finished
    detail,       \* id of the book bookDetailModal is open for, "" when it is closed
    confirm,      \* confirmModal: whether it is open, and the id its onConfirm deletes
    lsView,       \* localStorage['reading-list-view'], "" when the item is not set
    popups        \* the dropdowns, the pills, the overflow menu and the rating legend
                  \* that have the class 'open'

bookVars  == <<books, lsBooks, toast, exported>>
coverVars == <<lsCovers, cards, calls, returned, completed>>
viewConfig == <<filterState, searchInput, listSortState, currentView, lsView>>
viewVars  == <<viewConfig, filtered>>
modalVars == <<detail, confirm>>
uiVars    == <<phase, modalVars, popups, viewVars>>
vars      == <<books, lsBooks, toast, exported,
               lsCovers, cards, calls, returned, completed, phase,
               filterState, searchInput, listSortState, currentView, filtered,
               detail, confirm, lsView, popups>>

\* No element has the class 'open', as in the markup
AllClosed == [dropdowns |-> {}, pills |-> {}, overflow |-> FALSE, legend |-> FALSE]

\* pillConfigs (app.js:969-975), by filterKey
pillConfigs ==
    [k \in {"genre", "status", "format", "rating", "sort"} |->
        CASE k = "genre"  -> [pillId |-> "filterGenrePill",  dropdownId |-> "filterGenreDropdown"]
          [] k = "status" -> [pillId |-> "filterStatusPill", dropdownId |-> "filterStatusDropdown"]
          [] k = "format" -> [pillId |-> "filterFormatPill", dropdownId |-> "filterFormatDropdown"]
          [] k = "rating" -> [pillId |-> "filterRatingPill", dropdownId |-> "filterRatingDropdown"]
          [] OTHER        -> [pillId |-> "sortByPill",       dropdownId |-> "sortByDropdown"]]

\* The elements of the page with the class filter-dropdown and with the class
\* filter-pill: the dropdown and the pill of every pill config
FilterDropdowns == {pillConfigs[k].dropdownId : k \in DOMAIN pillConfigs}

FilterPills == {pillConfigs[k].pillId : k \in DOMAIN pillConfigs}

\* closeAllDropdowns (app.js:587-594)
closeAllDropdowns(p) ==
    [dropdowns |-> p.dropdowns \ FilterDropdowns,
     pills     |-> p.pills \ FilterPills,
     overflow  |-> FALSE,
     legend    |-> FALSE]

\* toggleDropdown that leaves the other popups as they are
toggleDropdown_OthersStay(p, pillId, dropdownId) ==
    IF dropdownId \in p.dropdowns
    THEN [p EXCEPT !.dropdowns = @ \ {dropdownId}, !.pills = @ \ {pillId}]
    ELSE [p EXCEPT !.dropdowns = @ \cup {dropdownId}, !.pills = @ \cup {pillId}]

\* toggleDropdown (app.js:574-585)
toggleDropdown(p, pillId, dropdownId) ==
    LET isOpen == dropdownId \in p.dropdowns
        closed == closeAllDropdowns(p)
    IN  IF ~isOpen
        THEN [closed EXCEPT !.dropdowns = @ \cup {dropdownId},
                            !.pills = @ \cup {pillId}]
        ELSE closed

\* The view state the script starts with (app.js:24-36), nothing rendered yet
DefaultFilter ==
    [genre |-> "", status |-> "", format |-> "", rating |-> "", sort |-> "dateAdded"]

\* The last renderAll, if there was one, did not run to its end
NotRendered == [applied |-> FALSE, result |-> << >>]

ViewInit ==
    /\ filterState = DefaultFilter
    /\ searchInput = ""
    /\ listSortState = [column |-> "title", direction |-> "asc"]
    /\ currentView = "grid"
    /\ lsView = ""
    /\ popups = AllClosed
    /\ detail = ""
    /\ confirm = [active |-> FALSE, id |-> ""]

----------------------------------------------------------------------------
(* JavaScript values *)

JNull   == [t |-> "null",     n |-> 0, s |-> ""]
JInf    == [t |-> "infinity", n |-> 0, s |-> ""]
JStr(s) == [t |-> "string",   n |-> 0, s |-> s]
JNum(n) == [t |-> "number",   n |-> n, s |-> ""]

\* In JSON text only: a number literal beyond the range of a double, as 1e999
JBig    == [t |-> "literal",  n |-> 0, s |-> "1e999"]

\* ToBoolean: what `if (v)`, `!v`, `v || w` test
Truthy(v) ==
    CASE v.t = "string"   -> v.s # ""
      [] v.t = "number"   -> v.n # 0
      [] v.t = "infinity" -> TRUE
      [] OTHER            -> FALSE

----------------------------------------------------------------------------
(* Cover cache: loadCoverCache / saveCoverCache (app.js:41-49) *)

\* The empty object {}
EmptyObj == [k \in {} |-> JNull]

\* JSON.stringify of a value: a non-finite number is written as null
StringifyValue(v) == IF v.t = "infinity" THEN JNull ELSE v

\* JSON.parse of a value: a literal beyond the doubles reads as Infinity
ParseValue(j) == IF j.t = "literal" THEN JInf ELSE j

\* localStorage.getItem of a key that was never set
NoItem == [present |-> FALSE, valid |-> FALSE, obj |-> EmptyObj]

\* JSON.stringify(cache), as the stored item
StringifyCache(cache) ==
    [present |-> TRUE, valid |-> TRUE,
     obj |-> [k \in DOMAIN cache |-> StringifyValue(cache[k])]]

\* loadCoverCache(): JSON.parse(item) || {}, and {} when JSON.parse throws
loadCoverCache(item) ==
    IF item.present /\ item.valid
    THEN [k \in DOMAIN item.obj |-> ParseValue(item.obj[k])]
    ELSE EmptyObj

\* saveCoverCache(cache): the new stored item
saveCoverCache(cache) == StringifyCache(cache)

\* cache[key] = url
CachePut(cache, key, url) ==
    [k \in DOMAIN cache \cup {key} |-> IF k = key THEN url ELSE cache[k]]

\* `${book.title}|||${book.author}`
CacheKey(book) == book.title \o "|||" \o book.author

\* data-needs-cover of the card createBookCard builds for `book` (app.js:392-409):
\* a book without coverImage whose key is not in the cache
needsCover(book, item) ==
    /\ book.coverImage = ""
    /\ CacheKey(book) \notin DOMAIN loadCoverCache(item)

----------------------------------------------------------------------------
(* Books *)

STATUS_LABELS ==
    [s \in {"wishlist", "up-next", "reading", "on-hold", "finished"} |->
        CASE s = "wishlist" -> "Wishlist"
          [] s = "up-next"  -> "Up Next"
          [] s = "reading"  -> "Currently Reading"
          [] s = "on-hold"  -> "On Hold"
          [] OTHER          -> "Finished"]

MkBook(id, title, author, status, favorite, rating, coverImage) ==
    [kind |-> "object", id |-> id, title |-> title, author |-> author,
     genre |-> "", format |-> "", status |-> status, favorite |-> favorite,
     rating |-> rating, coverImage |-> coverImage, dateAdded |-> "2026-01-01"]

\* The collection the cover resolver runs on: b001 and b002 are two copies of one
\* work (same title and author), b003 is another work.
CoverBooks ==
    << MkBook("b001", "Dune", "Herbert", "finished", TRUE, JNum(5), ""),
       MkBook("b002", "Dune", "Herbert", "up-next", FALSE, JNull, ""),
       MkBook("b003", "Emma", "Austen", "reading", FALSE, JNull, "") >>

----------------------------------------------------------------------------
(* The stored collection: loadBooks / saveBooks (app.js:122-133) *)

\* An entry of a parsed array that is null
NullEntry ==
    [kind |-> "null", id |-> "", title |-> "", author |-> "", genre |-> "",
     format |-> "", status |-> "", favorite |-> FALSE, rating |-> JNull,
     coverImage |-> "", dateAdded |-> ""]

\* Text: nothing at all, text that is not JSON, or JSON with its root and, for
\* an array root, its entries
NoText      == [kind |-> "empty",   root |-> "",       items |-> << >>]
InvalidText == [kind |-> "invalid", root |-> "",       items |-> << >>]
ObjectText  == [kind |-> "json",    root |-> "object", items |-> << >>]
ArrayText(items) == [kind |-> "json", root |-> "array", items |-> items]

StringifyEntry(b) ==
    IF b.kind = "null" THEN b ELSE [b EXCEPT !.rating = StringifyValue(@)]

ParseEntry(j) ==
    IF j.kind = "null" THEN j ELSE [j EXCEPT !.rating = ParseValue(@)]

\* JSON.stringify(books), also with indentation (app.js:132, 842)
Stringify(bs) == ArrayText([i \in 1..Len(bs) |-> StringifyEntry(bs[i])])

\* JSON.parse of the text of an array
ParseArray(text) == [i \in 1..Len(text.items) |-> ParseEntry(text.items[i])]

\* saveBooks(): the item stored under STORAGE_KEY
saveBooks(bs) == [present |-> TRUE, text |-> Stringify(bs)]

----------------------------------------------------------------------------
(* fetchCoverForBook (app.js:51-96) and lazyLoadCovers (app.js:222-254) *)

MaxCalls == 2          \* invocations of fetchCoverForBook that run at a time
CallIds  == 1..MaxCalls

\* What a request can come back with.  Open Library: the request or resp.json()
\* throws; no docs; a first doc with cover_edition_key.  Google Books: throws; no
\* items (or no imageLinks); imageLinks without thumbnail and smallThumbnail; a
\* thumbnail.
OLResponses == {"error", "nodocs", "key"}
GBResponses == {"error", "noitems", "nothumb", "thumb"}

\* The cover_edition_key in the answer to strategy 1 and to strategy 2
EditionKey(strategy) == IF strategy = 1 THEN "OL1M" ELSE "OL2M"

GBThumbnail == "http://books.google.com/thumb"

\* s.replace('http://', 'https://') on the strings that occur
ReplaceHttp(s) ==
    IF s = "http://books.google.com/thumb" THEN "https://books.google.com/thumb"
    ELSE s

\* url after an Open Library attempt (app.js:59-65, 69-75)
OLUrl(strategy, resp) ==
    IF resp = "key"
    THEN JStr("https://covers.openlibrary.org/b/olid/" \o EditionKey(strategy) \o "-M.jpg")
    ELSE JNull

\* url after the Google Books attempt (app.js:80-90)
GBUrl(resp) ==
    CASE resp = "thumb"   -> JStr(ReplaceHttp(GBThumbnail))
      [] resp = "nothumb" -> JStr(ReplaceHttp(""))
      [] OTHER            -> JNull

\* One invocation: where it stands (pc), its locals cacheKey, cache and url, the
\* requests it has issued (reqs), the answers it got (outs), and whether it began
\* after a call for the same key had returned (late).
IdleCall ==
    [pc |-> "idle", key |-> "", cache |-> EmptyObj, url |-> JNull,
     reqs |-> << >>, outs |-> << >>, late |-> FALSE]

\* The cards renderGrid builds (app.js:294), one per book, all filters off;
\* lazyLoadCovers observes those with data-needs-cover (app.js:223, 253)
RenderCards(bs, item) ==
    [i \in 1..Len(bs) |->
        [id |-> bs[i].id, observed |-> needsCover(bs[i], item)]]

\* books.find(b => b.id === id): the index of the first match, 0 when none
FindIndex(bs, id) ==
    IF \E i \in 1..Len(bs) : bs[i].id = id
    THEN CHOOSE i \in 1..Len(bs) :
            /\ bs[i].id = id
            /\ \A j \in 1..(i-1) : bs[j].id # id
    ELSE 0

\* cache[cacheKey] = url; saveCoverCache(cache); return url (app.js:93-95)
FinishCall(p, url, outs) ==
    LET c == calls[p]
        cache == CachePut(c.cache, c.key, url)
    IN  /\ lsCovers' = saveCoverCache(cache)
        /\ calls' = [calls EXCEPT ![p] = IdleCall]
        /\ returned' = [c EXCEPT !.pc = "done", !.cache = EmptyObj, !.url = url,
                                 !.outs = outs]
        /\ completed' = completed \cup {c.key}
        /\ cards' = cards

\* The body of fetchCoverForBook up to its first await (app.js:52-60): a hit
\* returns the cached value, a miss issues the request of strategy 1.
StartCall(p, book) ==
    LET cache == loadCoverCache(lsCovers)
        key == CacheKey(book)
        c == [IdleCall EXCEPT !.key = key, !.late = (key \in completed)]
    IN  IF key \in DOMAIN cache
        THEN /\ calls' = calls
             /\ returned' = [c EXCEPT !.pc = "done", !.url = cache[key]]
             /\ completed' = completed \cup {key}
        ELSE /\ calls' = [calls EXCEPT ![p] =
                            [c EXCEPT !.pc = "await1", !.cache = cache,
                                      !.reqs = <<1>>]]
             /\ returned' = returned
             /\ completed' = completed

\* The IntersectionObserver callback for one card (app.js:226-249):
\* observer.unobserve(card), then fetchCoverForBook for the book with the card's id
Intersect(i) ==
    /\ i \in DOMAIN cards
    /\ cards[i].observed
    /\ cards' = [cards EXCEPT ![i].observed = FALSE]
    /\ \E p \in CallIds :
        /\ calls[p].pc = "idle"
        /\ \A q \in 1..(p-1) : calls[q].pc # "idle"
        /\ LET k == FindIndex(books, cards[i].id)
           IN  /\ k # 0
               /\ StartCall(p, books[k])
    /\ UNCHANGED <<lsCovers, bookVars, uiVars>>

\* Respond1 without the `if (!url)` that guards strategy 2
Respond1_NoStop(p, resp) ==
    /\ calls[p].pc = "await1"
    /\ calls' = [calls EXCEPT ![p].pc = "await2", ![p].url = OLUrl(1, resp),
                              ![p].outs = Append(calls[p].outs, resp),
                              ![p].reqs = Append(calls[p].reqs, 2)]
    /\ UNCHANGED <<lsCovers, cards, returned, completed>>
    /\ UNCHANGED <<bookVars, uiVars>>

\* Strategy 1 answers (app.js:60-68)
Respond1(p, resp) ==
    /\ calls[p].pc = "await1"
    /\ LET url == OLUrl(1, resp)
           outs == Append(calls[p].outs, resp)
       IN  IF Truthy(url)
           THEN FinishCall(p, url, outs)
           ELSE /\ calls' = [calls EXCEPT ![p].pc = "await2", ![p].outs = outs,
                                          ![p].reqs = Append(calls[p].reqs, 2)]
                /\ UNCHANGED <<lsCovers, cards, returned, completed>>
    /\ UNCHANGED <<bookVars, uiVars>>

\* Strategy 2 answers (app.js:70-79)
Respond2(p, resp) ==
    /\ calls[p].pc = "await2"
    /\ LET url == OLUrl(2, resp)
           outs == Append(calls[p].outs, resp)
       IN  IF Truthy(url)
           THEN FinishCall(p, url, outs)
           ELSE /\ calls' = [calls EXCEPT ![p].pc = "await3", ![p].outs = outs,
                                          ![p].reqs = Append(calls[p].reqs, 3)]
                /\ UNCHANGED <<lsCovers, cards, returned, completed>>
    /\ UNCHANGED <<bookVars, uiVars>>

\* Respond3 without the try / catch: a failing request rejects the call
Respond3_Throws(p, resp) ==
    /\ calls[p].pc = "await3"
    /\ IF resp = "error"
       THEN /\ calls' = [calls EXCEPT ![p] = IdleCall]
            /\ UNCHANGED <<lsCovers, cards, returned, completed>>
       ELSE FinishCall(p, GBUrl(resp), Append(calls[p].outs, resp))
    /\ UNCHANGED <<bookVars, uiVars>>

\* Strategy 3 answers (app.js:82-95)
Respond3(p, resp) ==
    /\ calls[p].pc = "await3"
    /\ FinishCall(p, GBUrl(resp), Append(calls[p].outs, resp))
    /\ UNCHANGED <<bookVars, uiVars>>

\* renderAll in grid view (app.js:137-178): every card is rebuilt, and
\* lazyLoadCovers observes the ones that need a cover
RenderAll ==
    /\ cards' = RenderCards(books, lsCovers)
    /\ UNCHANGED <<lsCovers, calls, returned, completed, bookVars, uiVars>>

CoverInitWith(bs) ==
    /\ books = bs
    /\ lsBooks = saveBooks(bs)
    /\ toast = ""
    /\ exported = NoText
    /\ lsCovers = NoItem
    /\ cards = RenderCards(books, lsCovers)
    /\ calls = [p \in CallIds |-> IdleCall]
    /\ returned = IdleCall
    /\ completed = {}
    /\ phase = "ready"
    /\ ViewInit
    /\ filtered = NotRendered

CoverInit == CoverInitWith(CoverBooks)

\* The two copies of one work alone: every lookup is for the same cache key
OneWorkInit == CoverInitWith(SubSeq(CoverBooks, 1, 2))

CoverNext ==
    \/ \E i \in DOMAIN cards : Intersect(i)
    \/ \E p \in CallIds, r \in OLResponses : Respond1(p, r)
    \/ \E p \in CallIds, r \in OLResponses : Respond2(p, r)
    \/ \E p \in CallIds, r \in GBResponses : Respond3(p, r)
    \/ RenderAll

SpecCover == CoverInit /\ [][CoverNext]_vars

\* Every request that was issued is answered or fails: the claim's proviso
Answer(p) ==
    \/ \E r \in OLResponses : Respond1(p, r)
    \/ \E r \in OLResponses : Respond2(p, r)
    \/ \E r \in GBResponses : Respond3(p, r)

SpecOneWork == OneWorkInit /\ [][CoverNext]_vars

SpecOneWorkFair == SpecOneWork /\ \A p \in CallIds : WF_vars(Answer(p))

----------------------------------------------------------------------------
(* getFilteredBooks (app.js:485-515) *)

\* The characters of the strings that are titles, authors or search texts
Chars(str) ==
    CASE str = ""        -> << >>
      [] str = "Dune"    -> <<"D", "u", "n", "e">>
      [] str = "Emma"    -> <<"E", "m", "m", "a">>
      [] str = "Ulysses" -> <<"U", "l", "y", "s", "s", "e", "s">>
      [] str = "Herbert" -> <<"H", "e", "r", "b", "e", "r", "t">>
      [] str = "Austen"  -> <<"A", "u", "s", "t", "e", "n">>
      [] str = "Joyce"   -> <<"J", "o", "y", "c", "e">>
      [] str = "UN"      -> <<"U", "N">>
      [] str = " dune "  -> <<" ", "d", "u", "n", "e", " ">>
      [] str = "e"       -> <<"e">>
      [] str = "zz"      -> <<"z", "z">>

\* String.prototype.toLowerCase
LowerChar(c) ==
    CASE c = "A" -> "a" [] c = "D" -> "d" [] c = "E" -> "e" [] c = "H" -> "h"
      [] c = "J" -> "j" [] c = "N" -> "n" [] c = "U" -> "u" [] OTHER -> c

toLowerCase(cs) == [i \in 1..Len(cs) |-> LowerChar(cs[i])]

\* String.prototype.trim
RECURSIVE trim(_)
trim(cs) ==
    IF cs = << >> THEN cs
    ELSE IF Head(cs) = " " THEN trim(Tail(cs))
    ELSE IF cs[Len(cs)] = " " THEN trim(SubSeq(cs, 1, Len(cs) - 1))
    ELSE cs

\* String.prototype.includes
includes(cs, part) ==
    \E k \in 0..(Len(cs) - Len(part)) : SubSeq(cs, k + 1, k + Len(part)) = part

\* The order localeCompare puts the strings of the model in
Collation ==
    << "", "2025-05-05", "2026-01-01", "2026-11-03",
       "Austen", "Dune", "Emma", "Herbert", "Joyce", "Ulysses" >>

Position(str) == CHOOSE i \in 1..Len(Collation) : Collation[i] = str

\* a.localeCompare(b): negative, zero or positive
localeCompare(a, b) == Position(a) - Position(b)

\* parseInt of the data-value of an item of the rating dropdown
parseInt(str) ==
    CASE str = "1" -> 1 [] str = "2" -> 2 [] str = "3" -> 3
      [] str = "4" -> 4 [] str = "5" -> 5

\* (v || 0) as a number; Infinity is above every rating
NumberOrZero(v) ==
    CASE v.t = "number"   -> v.n
      [] v.t = "infinity" -> 1000
      [] OTHER            -> 0

\* The callback of books.filter without the test for the value 'none'
Matches_NoneIsOff(book, fs, input) ==
    LET query == trim(toLowerCase(Chars(input)))
    IN  /\ ~ (/\ query # << >>
              /\ ~includes(toLowerCase(Chars(book.title)), query)
              /\ ~includes(toLowerCase(Chars(book.author)), query))
        /\ ~ (fs.genre # "" /\ book.genre # fs.genre)
        /\ ~ (fs.status # "" /\ book.status # fs.status)
        /\ ~ (fs.format # "" /\ book.format # fs.format)
        /\ ~ (/\ fs.rating # ""
              /\ fs.rating # "none"
              /\ book.rating # JNum(parseInt(fs.rating)))

\* The callback of books.filter without the test of the genre
Matches_AnyGenre(book, fs, input) ==
    LET query == trim(toLowerCase(Chars(input)))
    IN  /\ ~ (/\ query # << >>
              /\ ~includes(toLowerCase(Chars(book.title)), query)
              /\ ~includes(toLowerCase(Chars(book.author)), query))
        /\ ~ (fs.status # "" /\ book.status # fs.status)
        /\ ~ (fs.format # "" /\ book.format # fs.format)
        /\ ~ (fs.rating = "none" /\ book.rating # JNull)
        /\ ~ (/\ fs.rating # ""
              /\ fs.rating # "none"
              /\ book.rating # JNum(parseInt(fs.rating)))

\* The callback of books.filter (app.js:493-501)
Matches(book, fs, input) ==
    LET query == trim(toLowerCase(Chars(input)))
    IN  /\ ~ (/\ query # << >>
              /\ ~includes(toLowerCase(Chars(book.title)), query)
              /\ ~includes(toLowerCase(Chars(book.author)), query))
        /\ ~ (fs.genre # "" /\ book.genre # fs.genre)
        /\ ~ (fs.status # "" /\ book.status # fs.status)
        /\ ~ (fs.format # "" /\ book.format # fs.format)
        /\ ~ (fs.rating = "none" /\ book.rating # JNull)
        /\ ~ (/\ fs.rating # ""
              /\ fs.rating # "none"
              /\ book.rating # JNum(parseInt(fs.rating)))

\* The callback of result.sort with the operands of the rating difference exchanged
CompareBooks_Ascending(sortBy, a, b) ==
    CASE sortBy = "title"         -> localeCompare(a.title, b.title)
      [] sortBy = "author"        -> localeCompare(a.author, b.author)
      [] sortBy = "rating"        -> NumberOrZero(a.rating) - NumberOrZero(b.rating)
      [] sortBy = "yearPublished" -> 0
      [] OTHER                    -> localeCompare(b.dateAdded, a.dateAdded)

\* The callback of result.sort (app.js:503-512); the books of the model have no
\* yearPublished, so that key compares every two books as equal
CompareBooks(sortBy, a, b) ==
    CASE sortBy = "title"         -> localeCompare(a.title, b.title)
      [] sortBy = "author"        -> localeCompare(a.author, b.author)
      [] sortBy = "rating"        -> NumberOrZero(b.rating) - NumberOrZero(a.rating)
      [] sortBy = "yearPublished" -> 0
      [] OTHER                    -> localeCompare(b.dateAdded, a.dateAdded)

\* Array.prototype.sort, which is stable: each book goes behind the books that
\* come before it in the array and do not compare greater
RECURSIVE StableSort(_, _)
StableSort(bs, sortBy) ==
    IF bs = << >> THEN bs
    ELSE LET front == StableSort(SubSeq(bs, 1, Len(bs) - 1), sortBy)
             x == bs[Len(bs)]
             k == Cardinality({i \in 1..Len(front) :
                                 CompareBooks(sortBy, front[i], x) <= 0})
         IN  SubSeq(front, 1, k) \o <<x>> \o SubSeq(front, k + 1, Len(front))

getFilteredBooks(bs, fs, input) ==
    StableSort(SelectSeq(bs, LAMBDA b : Matches(b, fs, input)), fs.sort)

----------------------------------------------------------------------------
(* renderAll (app.js:137-178) *)

\* The six filters of renderAll (app.js:140-145), by the name of their constant
BucketNames == {"favorites", "reading", "owned", "wantToBuy", "paused", "completed"}

InBucket(name, b) ==
    CASE name = "favorites" -> b.favorite /\ b.status = "finished"
      [] name = "reading"   -> b.status = "reading"
      [] name = "owned"     -> b.status = "up-next"
      [] name = "wantToBuy" -> b.status = "wishlist"
      [] name = "paused"    -> b.status = "on-hold"
      [] OTHER              -> b.status = "finished" /\ ~b.favorite

BucketsOf(b) == {name \in BucketNames : InBucket(name, b)}

----------------------------------------------------------------------------
(* The collection: add, edit, status change, delete, import, export *)

MaxBooks == 2          \* books in the collection

SEED_DATA ==
    << MkBook("b001", "Dune", "Herbert", "finished", TRUE, JNum(5), ""),
       MkBook("b002", "Emma", "Austen", "finished", FALSE, JNull, "") >>

Today == "2026-11-03"

\* What the form holds at submit: title, author, status, favorite, rating
FormInputs ==
    { [title |-> "Ulysses", author |-> "Joyce", status |-> "reading",
       favorite |-> FALSE, rating |-> JNum(4)] }

\* The ids generateId can return (app.js:1068-1070): time and random digits, so
\* none that a book of the collection has
GeneratedIds == {"bk1", "bk2"}

generateId(bs) == {id \in GeneratedIds : \A i \in DOMAIN bs : bs[i].id # id}

IsObject(b) == b.kind = "object"

\* A property of an entry is read: this throws a TypeError on null
AnyNull(bs) == \E i \in DOMAIN bs : ~IsObject(bs[i])

\* renderAll throws (app.js:140): the bucket filters read b.favorite of every
\* entry getFilteredBooks returns, which with no filter set is every entry
RenderThrows(bs) == AnyNull(bs)

\* bookData of handleFormSubmit (app.js:747-768)
BookData(f, id, dateAdded) ==
    [kind |-> "object", id |-> id, title |-> f.title, author |-> f.author,
     genre |-> "", format |-> "", status |-> f.status, favorite |-> f.favorite,
     rating |-> f.rating, coverImage |-> "", dateAdded |-> dateAdded]

\* renderAll (app.js:137-138): what getFilteredBooks returns to it, unless it
\* throws, with the filter settings and the search text the handler leaves
RenderedWith(bs, fs, input) ==
    IF RenderThrows(bs) THEN NotRendered
    ELSE [applied |-> TRUE, result |-> getFilteredBooks(bs, fs, input)]

Rendered(bs) == RenderedWith(bs, filterState, searchInput)

\* The steps every mutating handler ends with: saveBooks(), renderAll(),
\* updateStats(), showToast(msg); the toast is not reached when renderAll throws
SaveAndRender(bs, msg) ==
    /\ books' = bs
    /\ lsBooks' = saveBooks(bs)
    /\ toast' = IF RenderThrows(bs) THEN toast ELSE msg
    /\ filtered' = Rendered(bs)
    /\ exported' = IF bs = books THEN exported ELSE NoText

\* handleFormSubmit with an empty formBookId (app.js:742-783)
AddBook(f, id) ==
    /\ Len(books) < MaxBooks
    /\ id \in generateId(books)
    /\ SaveAndRender(Append(books, BookData(f, id, Today)), "Book added")
    /\ UNCHANGED <<coverVars, phase, modalVars, popups, viewConfig>>

\* showBookDetail(id) finds a book (app.js:599): no null entry comes before it.
\* An id of "" is the empty string, which data-id and find carry like any other
Shown(i) ==
    /\ i \in DOMAIN books
    /\ IsObject(books[i])
    /\ \A j \in 1..(i-1) : IsObject(books[j]) /\ books[j].id # books[i].id

\* handleFormSubmit (app.js:742-783) after openEditForm(book) has put book.id
\* into formBookId (app.js:718-719): isEdit = !!id, so the form of a book whose
\* id is '' is submitted as a new book
EditBook(i, f) ==
    /\ Shown(i)
    /\ LET id == books[i].id
           old == books[i].dateAdded
           data == BookData(f, id, IF old # "" THEN old ELSE Today)
       IN  IF id # ""
           THEN SaveAndRender([books EXCEPT ![i] = data], "Book updated")
           ELSE /\ Len(books) < MaxBooks
                /\ \E new \in generateId(books) :
                      SaveAndRender(Append(books, BookData(f, new, Today)),
                                    "Book added")
    /\ UNCHANGED <<coverVars, phase, modalVars, popups, viewConfig>>

\* A status change that also clears the favorite mark
ChangeStatus_ClearsFavorite(i, st) ==
    /\ Shown(i)
    /\ SaveAndRender([books EXCEPT ![i].status = st, ![i].favorite = FALSE],
                     "Moved to " \o STATUS_LABELS[st])
    /\ UNCHANGED <<coverVars, phase, modalVars, popups, viewConfig>>

\* The change handler of detailStatusSelect (app.js:678-684)
ChangeStatus(i, st) ==
    /\ Shown(i)
    /\ SaveAndRender([books EXCEPT ![i].status = st], "Moved to " \o STATUS_LABELS[st])
    /\ UNCHANGED <<coverVars, phase, modalVars, popups, viewConfig>>

\* books.filter(b => b.id !== id)
RemoveId(bs, id) == SelectSeq(bs, LAMBDA b : b.id # id)

\* The confirmed delete (app.js:692-700); with a null entry the filter throws
\* and nothing is changed
DeleteBook(i) ==
    /\ Shown(i)
    /\ ~AnyNull(books)
    /\ SaveAndRender(RemoveId(books, books[i].id), "Book deleted")
    /\ UNCHANGED <<coverVars, phase, modalVars, popups, viewConfig>>

\* exportBooks (app.js:841-851)
ExportBooks ==
    /\ exported' = Stringify(books)
    /\ toast' = "Exported successfully"
    /\ UNCHANGED <<books, lsBooks, coverVars, uiVars>>

\* Merge that skips no entry
MergeBooks_NoSkip(bs, data) == bs \o data

\* Merge: data.filter(b => !existingIds.has(b.id)) appended (app.js:886-888)
MergeBooks(bs, data) ==
    LET existingIds == {bs[i].id : i \in DOMAIN bs}
    IN  bs \o SelectSeq(data, LAMBDA b : b.id \notin existingIds)

\* Import that merges whatever the checkbox says
Imported_AlwaysMerge(bs, data, replace) == MergeBooks(bs, data)

\* What doImport makes of the parsed array (app.js:882-889)
Imported(bs, data, replace) ==
    IF replace THEN data ELSE MergeBooks(bs, data)

\* The toasts of doImport; `-` is the dash of the source text
ImportFailed == "Import failed - invalid JSON"

ImportedToast(n) == "Imported " \o ToString(n) \o " books"

InvalidFormat == "Invalid format - expected an array of books"

\* Every root passes for an array
IsArray_Always(text) == TRUE

\* Array.isArray(data) (app.js:876)
IsArray(text) == text.root = "array"

\* doImport (app.js:860-900) with the text of the file or of the textarea.  The
\* handler reads books only after `await file.text()`, so it is one step.
DoImport(text, replace) ==
    /\ UNCHANGED <<coverVars, phase, modalVars, popups, viewConfig>>
    /\ CASE text.kind = "empty" ->
              /\ toast' = "No data to import"
              /\ UNCHANGED <<books, lsBooks, exported, filtered>>
         [] text.kind = "invalid" ->
              /\ toast' = ImportFailed
              /\ UNCHANGED <<books, lsBooks, exported, filtered>>
         [] text.kind = "json" /\ ~IsArray(text) ->
              /\ toast' = InvalidFormat
              /\ UNCHANGED <<books, lsBooks, exported, filtered>>
         [] OTHER ->
              LET data == ParseArray(text)
              IN  IF ~replace /\ (AnyNull(books) \/ AnyNull(data))
                  THEN /\ toast' = ImportFailed
                       /\ UNCHANGED <<books, lsBooks, exported, filtered>>
                  ELSE LET bs == Imported(books, data, replace)
                       IN  /\ Len(bs) <= MaxBooks
                           /\ books' = bs
                           /\ lsBooks' = saveBooks(bs)
                           /\ toast' = IF RenderThrows(bs) THEN ImportFailed
                                        ELSE ImportedToast(Len(data))
                           /\ filtered' = Rendered(bs)
                           /\ exported' = IF bs = books THEN exported ELSE NoText

\* An entry of an import document; a dateAdded of "" is an entry without one
Entry(id, status, favorite, rating) ==
    [kind |-> "object", id |-> id, title |-> "Emma", author |-> "Austen",
     genre |-> "", format |-> "", status |-> status, favorite |-> favorite,
     rating |-> rating, coverImage |-> "", dateAdded |-> "2025-05-05"]

\* The documents given to the import, beside the export itself
ImportTexts ==
    { NoText, InvalidText, ObjectText,
      ArrayText(<< >>),
      ArrayText(<< Entry("b002", "reading", TRUE, JNum(2)),
                   Entry("b777", "up-next", FALSE, JNull) >>),
      ArrayText(<< Entry("b900", "archived", FALSE, JNull) >>),
      ArrayText(<< Entry("b555", "on-hold", TRUE, JBig) >>),
      ArrayText(<< Entry("b777", "up-next", FALSE, JNull),
                   Entry("b777", "wishlist", FALSE, JNum(3)) >>),
      ArrayText(<< [Entry("b300", "reading", FALSE, JNull) EXCEPT !.dateAdded = ""] >>),
      ArrayText(<< NullEntry >>) }

\* The status picked in the select of the detail modal (app.js:654-656)
StatusChoices == {"on-hold"}

Init ==
    /\ books = SEED_DATA
    /\ lsBooks = saveBooks(SEED_DATA)
    /\ toast = "Loaded seed data - welcome!"
    /\ exported = NoText
    /\ lsCovers = NoItem
    /\ cards = << >>
    /\ calls = [p \in CallIds |-> IdleCall]
    /\ returned = IdleCall
    /\ completed = {}
    /\ phase = "ready"
    /\ ViewInit
    /\ filtered = [applied |-> TRUE,
                   result |-> getFilteredBooks(SEED_DATA, DefaultFilter, "")]

Next ==
    \/ \E f \in FormInputs, id \in GeneratedIds : AddBook(f, id)
    \/ \E i \in 1..MaxBooks, f \in FormInputs : EditBook(i, f)
    \/ \E i \in 1..MaxBooks, st \in StatusChoices : ChangeStatus(i, st)
    \/ \E i \in 1..MaxBooks : DeleteBook(i)
    \/ ExportBooks
    \/ \E t \in ImportTexts \cup {exported}, r \in BOOLEAN : DoImport(t, r)

Spec == Init /\ [][Next]_vars

----------------------------------------------------------------------------
(* Start-up: init() on whatever the two storage keys hold (app.js:100-129) *)

\* loadBooks that lets the exception of JSON.parse through
loadBooks_NoCatch(item) ==
    IF ~item.present \/ item.text.kind = "empty"
    THEN [isArray |-> TRUE, items |-> << >>]
    ELSE IF item.text.kind = "json" /\ IsArray(item.text)
         THEN [isArray |-> TRUE, items |-> ParseArray(item.text)]
         ELSE [isArray |-> FALSE, items |-> << >>]

\* loadBooks(): data ? JSON.parse(data) : [], and [] when JSON.parse throws.
\* JSON of another root is returned as it is: isArray tells that it is no array.
loadBooks(item) ==
    IF ~item.present \/ item.text.kind = "empty"
    THEN [isArray |-> TRUE, items |-> << >>]
    ELSE IF item.text.kind = "invalid"
         THEN [isArray |-> TRUE, items |-> << >>]
         ELSE IF IsArray(item.text)
              THEN [isArray |-> TRUE, items |-> ParseArray(item.text)]
              ELSE [isArray |-> FALSE, items |-> << >>]

\* What STORAGE_KEY can hold when the page is opened
StoredCollections ==
    { [present |-> FALSE, text |-> NoText],
      [present |-> TRUE, text |-> InvalidText],
      [present |-> TRUE, text |-> ObjectText],
      [present |-> TRUE, text |-> ArrayText(<< NullEntry >>)],
      saveBooks(<< >>),
      saveBooks(<< SEED_DATA[1] >>),
      saveBooks(<< SEED_DATA[2], SEED_DATA[1] >>),
      [present |-> TRUE,
       text |-> ArrayText(<< MkBook("b555", "Emma", "Austen", "on-hold", TRUE, JBig, "") >>)] }

\* The stored cover cache is text that JSON.parse rejects
MalformedCache == [present |-> TRUE, valid |-> FALSE, obj |-> EmptyObj]

\* What COVER_CACHE_KEY can hold when the page is opened
StoredCaches ==
    { NoItem, MalformedCache,
      saveCoverCache(CachePut(EmptyObj, CacheKey(SEED_DATA[2]), JNull)) }

\* init() that loads the seed data whatever the store holds
InitApp_AlwaysSeeds ==
    /\ phase = "boot"
    /\ LET loaded == loadBooks(lsBooks)
           seeded == loaded.isArray
           bs     == IF seeded THEN SEED_DATA ELSE loaded.items
           throws == ~loaded.isArray \/ RenderThrows(bs)
       IN  /\ books' = bs
           /\ lsBooks' = IF seeded THEN saveBooks(bs) ELSE lsBooks
           /\ toast' = IF seeded THEN "Loaded seed data - welcome!" ELSE toast
           /\ phase' = IF throws THEN "error" ELSE "ready"
           /\ cards' = IF throws THEN << >> ELSE RenderCards(bs, lsCovers)
           /\ filtered' = IF throws THEN NotRendered ELSE Rendered(bs)
    /\ UNCHANGED <<exported, lsCovers, calls, returned, completed, viewConfig,
                   modalVars, popups>>

\* init() (app.js:100-118); currentView is 'grid'.  With a value that is no
\* array books.length is undefined, no seed is loaded and renderAll throws at
\* books.filter; books then has no entries.
InitApp ==
    /\ phase = "boot"
    /\ LET loaded == loadBooks(lsBooks)
           seeded == loaded.isArray /\ Len(loaded.items) = 0
           bs     == IF seeded THEN SEED_DATA ELSE loaded.items
           throws == ~loaded.isArray \/ RenderThrows(bs)
       IN  /\ books' = bs
           /\ lsBooks' = IF seeded THEN saveBooks(bs) ELSE lsBooks
           /\ toast' = IF seeded THEN "Loaded seed data - welcome!" ELSE toast
           /\ phase' = IF throws THEN "error" ELSE "ready"
           /\ cards' = IF throws THEN << >> ELSE RenderCards(bs, lsCovers)
           /\ filtered' = IF throws THEN NotRendered ELSE Rendered(bs)
    /\ UNCHANGED <<exported, lsCovers, calls, returned, completed, viewConfig,
                   modalVars, popups>>

StartInit ==
    /\ books = << >>
    /\ lsBooks \in StoredCollections
    /\ toast = ""
    /\ exported = NoText
    /\ lsCovers \in StoredCaches
    /\ cards = << >>
    /\ calls = [p \in CallIds |-> IdleCall]
    /\ returned = IdleCall
    /\ completed = {}
    /\ phase = "boot"
    /\ ViewInit
    /\ filtered = NotRendered

StartNext ==
    \/ InitApp
    \/ \E i \in DOMAIN cards : Intersect(i)
    \/ \E p \in CallIds, r \in OLResponses : Respond1(p, r)
    \/ \E p \in CallIds, r \in OLResponses : Respond2(p, r)
    \/ \E p \in CallIds, r \in GBResponses : Respond3(p, r)

SpecStart == StartInit /\ [][StartNext]_vars

----------------------------------------------------------------------------
(* getFilteredBooks on collections and filter settings of every kind *)

MaxShelf == 3          \* books in a collection that is filtered

ShelfBook(id, title, author, genre, format, status, rating, dateAdded) ==
    [kind |-> "object", id |-> id, title |-> title, author |-> author,
     genre |-> genre, format |-> format, status |-> status, favorite |-> FALSE,
     rating |-> rating, coverImage |-> "", dateAdded |-> dateAdded]

\* Two books rated 3, two without rating, one rated 5
Shelf ==
    { ShelfBook("s1", "Dune", "Herbert", "Sci-Fi", "ebook", "finished",
                JNum(5), "2026-01-01"),
      ShelfBook("s2", "Emma", "Austen", "Romance", "print", "reading",
                JNum(3), "2025-05-05"),
      ShelfBook("s3", "Ulysses", "Joyce", "Romance", "ebook", "finished",
                JNum(3), "2026-01-01"),
      ShelfBook("s4", "Dune", "Herbert", "Sci-Fi", "print", "wishlist",
                JNull, "2026-11-03"),
      ShelfBook("s5", "Ulysses", "Joyce", "Romance", "print", "up-next",
                JNull, "2025-05-05") }

\* The collections: up to MaxShelf different books of the shelf, in any order
Shelves ==
    UNION { { bs \in [1..n -> Shelf] : \A i, j \in 1..n : bs[i] = bs[j] => i = j }
            : n \in 0..MaxShelf }

\* Settings of the filter pills and of the sort pill
FilterConfigs ==
    [genre : {"", "Sci-Fi", "Poetry"}, status : {"", "finished"},
     format : {"", "ebook"}, rating : {"", "none", "3"},
     sort : {"dateAdded", "title", "author", "rating", "yearPublished"}]

\* Texts of the search field
SearchTexts == {"", "UN", " dune ", "zz"}

FilterInit ==
    /\ books \in Shelves
    /\ lsBooks = saveBooks(books)
    /\ toast = ""
    /\ exported = NoText
    /\ lsCovers = NoItem
    /\ cards = << >>
    /\ calls = [p \in CallIds |-> IdleCall]
    /\ returned = IdleCall
    /\ completed = {}
    /\ phase = "ready"
    /\ filterState \in FilterConfigs
    /\ searchInput \in SearchTexts
    /\ listSortState = [column |-> "title", direction |-> "asc"]
    /\ currentView = "grid"
    /\ lsView = ""
    /\ popups = AllClosed
    /\ filtered = NotRendered
    /\ detail = ""
    /\ confirm = [active |-> FALSE, id |-> ""]

\* renderAll calls getFilteredBooks (app.js:138)
ApplyFilters ==
    /\ ~filtered.applied
    /\ filtered' = Rendered(books)
    /\ UNCHANGED <<bookVars, coverVars, phase, modalVars, popups, viewConfig>>

SpecFilter == FilterInit /\ [][ApplyFilters]_vars

----------------------------------------------------------------------------
(* The filter pills, the sort pill, the view toggle and the list headers *)

\* data-value of the items of the dropdowns that are clicked
PillItems ==
    [status |-> {"", "finished", "reading"},
     sort   |-> {"dateAdded", "title", "author", "rating", "yearPublished"}]

\* data-sort-col of the headers renderList builds (app.js:344-352)
ListColumns == {"title", "author", "genre", "rating", "status", "format"}

\* The click handler of a dropdown item (app.js:545-570): filterState[filterKey]
\* = value, closeAllDropdowns, then renderAll
ChooseItem(filterKey, value) ==
    /\ phase = "ready"
    /\ filterState' = [filterState EXCEPT ![filterKey] = value]
    /\ popups' = closeAllDropdowns(popups)
    /\ filtered' = RenderedWith(books, filterState', searchInput)
    /\ UNCHANGED <<bookVars, coverVars, phase, modalVars, searchInput, listSortState, currentView, lsView>>

\* clearAllFilters (app.js:194-220), called by a click that goes on to the
\* document, where it closes the popups (app.js:1005-1007)
clearAllFilters ==
    /\ phase = "ready"
    /\ popups' = closeAllDropdowns(popups)
    /\ filterState' = DefaultFilter
    /\ searchInput' = ""
    /\ filtered' = RenderedWith(books, filterState', searchInput')
    /\ UNCHANGED <<bookVars, coverVars, phase, modalVars, listSortState, currentView, lsView>>

\* A view toggle that does not store the view
ToggleView_NotStored(view) ==
    /\ phase = "ready"
    /\ currentView' = view
    /\ popups' = closeAllDropdowns(popups)
    /\ filtered' = Rendered(books)
    /\ UNCHANGED <<bookVars, coverVars, phase, modalVars, filterState, searchInput, listSortState,
                   lsView>>

\* The click handler of a view toggle button (app.js:958-966); the click goes
\* on to the document, where it closes the popups (app.js:1005-1007)
ToggleView(view) ==
    /\ phase = "ready"
    /\ currentView' = view
    /\ lsView' = view
    /\ popups' = closeAllDropdowns(popups)
    /\ filtered' = Rendered(books)
    /\ UNCHANGED <<bookVars, coverVars, phase, modalVars, filterState, searchInput, listSortState>>

\* renderList has built a table with headers: the view is the list and a bucket
\* has a book (app.js:147, 309-321)
HeadersShown ==
    /\ currentView = "list"
    /\ filtered.applied
    /\ \E b \in {filtered.result[i] : i \in DOMAIN filtered.result} : BucketsOf(b) # {}

\* The click handler of a column header that keeps the direction when the
\* column changes
ClickHeader_KeepsDirection(col) ==
    /\ phase = "ready"
    /\ HeadersShown
    /\ listSortState' =
          IF listSortState.column = col
          THEN [listSortState EXCEPT
                  !.direction = IF @ = "asc" THEN "desc" ELSE "asc"]
          ELSE [listSortState EXCEPT !.column = col]
    /\ filtered' = Rendered(books)
    /\ UNCHANGED <<bookVars, coverVars, phase, modalVars, popups, filterState, searchInput, currentView, lsView>>

\* The click handler of a column header that also sets the sort key of the pill
ClickHeader_SetsSort(col) ==
    /\ phase = "ready"
    /\ HeadersShown
    /\ listSortState' =
          IF listSortState.column = col
          THEN [listSortState EXCEPT
                  !.direction = IF @ = "asc" THEN "desc" ELSE "asc"]
          ELSE [column |-> col, direction |-> "asc"]
    /\ filterState' = [filterState EXCEPT !.sort = "title"]
    /\ filtered' = RenderedWith(books, filterState', searchInput)
    /\ UNCHANGED <<bookVars, coverVars, phase, modalVars, popups, searchInput, currentView, lsView>>

\* The click handler of a column header (app.js:377-387)
ClickHeader(col) ==
    /\ phase = "ready"
    /\ HeadersShown
    /\ listSortState' =
          IF listSortState.column = col
          THEN [listSortState EXCEPT
                  !.direction = IF @ = "asc" THEN "desc" ELSE "asc"]
          ELSE [column |-> col, direction |-> "asc"]
    /\ filtered' = Rendered(books)
    /\ UNCHANGED <<bookVars, coverVars, phase, modalVars, popups, filterState, searchInput, currentView, lsView>>

ViewNext ==
    \/ \E v \in PillItems.status : ChooseItem("status", v)
    \/ \E v \in PillItems.sort : ChooseItem("sort", v)
    \/ clearAllFilters
    \/ \E view \in {"grid", "list"} : ToggleView(view)
    \/ \E col \in ListColumns : ClickHeader(col)

SpecView == Init /\ [][ViewNext]_vars

----------------------------------------------------------------------------
(* The delete dialog: showBookDetail, showConfirmDialog and the modal helpers *)

\* No .modal-overlay is active: the page under the overlays can be clicked
NoModal == detail = "" /\ ~confirm.active

\* A click on the card or the row of books[i]: showBookDetail(book.id)
\* (app.js:598-704) finds the first book of that id and opens bookDetailModal
OpenDetail(i) ==
    /\ NoModal
    /\ i \in DOMAIN books
    /\ \A j \in 1..i : IsObject(books[j])
    /\ books[i].id # ""
    /\ detail' = books[i].id
    /\ UNCHANGED <<bookVars, coverVars, phase, confirm, popups, viewVars>>

\* closeDetailModal, or a click on the overlay of bookDetailModal
\* (app.js:1018, 1045-1052)
CloseDetail ==
    /\ detail # ""
    /\ ~confirm.active
    /\ detail' = ""
    /\ UNCHANGED <<bookVars, coverVars, phase, confirm, popups, viewVars>>

\* The click handler of deleteBookBtn (app.js:691-701): showConfirmDialog
\* (app.js:904-923) opens confirmModal and replaces the two buttons, so the
\* only listener left on confirmDeleteBtn is the closure made for this id
ClickDelete ==
    /\ detail # ""
    /\ ~confirm.active
    /\ confirm' = [active |-> TRUE, id |-> detail]
    /\ UNCHANGED <<bookVars, coverVars, phase, detail, popups, viewVars>>

\* confirmCancelBtn (app.js:918), or a click on the overlay of confirmModal
\* (app.js:1045-1052): closeModal('confirmModal') and nothing else
CancelDelete ==
    /\ confirm.active
    /\ confirm' = [confirm EXCEPT !.active = FALSE]
    /\ UNCHANGED <<bookVars, coverVars, phase, detail, popups, viewVars>>

\* The Escape key (app.js:1054-1063): closeAllDropdowns, and every active modal
\* is closed
Escape ==
    /\ popups' = closeAllDropdowns(popups)
    /\ detail' = ""
    /\ confirm' = [confirm EXCEPT !.active = FALSE]
    /\ UNCHANGED <<bookVars, coverVars, phase, viewVars>>

\* confirmDeleteBtn (app.js:919-922): closeModal('confirmModal'), then the
\* onConfirm of app.js:692-700; with a null entry books.filter throws before
\* anything is changed
ConfirmDelete ==
    /\ confirm.active
    /\ confirm' = [confirm EXCEPT !.active = FALSE]
    /\ IF AnyNull(books)
       THEN UNCHANGED <<bookVars, detail, filtered>>
       ELSE /\ SaveAndRender(RemoveId(books, confirm.id), "Book deleted")
            /\ detail' = ""
    /\ UNCHANGED <<coverVars, phase, popups, viewConfig>>

\* The form and the import are reached from the page, with no modal open
AddFromPage(f, id) == NoModal /\ AddBook(f, id)

ImportFromPage(text, replace) == NoModal /\ DoImport(text, replace)

\* The documents imported before a delete
DeleteImports ==
    { ArrayText(<< Entry("b002", "reading", TRUE, JNum(2)),
                   Entry("b777", "up-next", FALSE, JNull) >>),
      ArrayText(<< Entry("b777", "up-next", FALSE, JNull),
                   Entry("b777", "wishlist", FALSE, JNum(3)) >>) }

DeleteNext ==
    \/ \E i \in 1..MaxBooks : OpenDetail(i)
    \/ CloseDetail
    \/ ClickDelete
    \/ CancelDelete
    \/ Escape
    \/ ConfirmDelete
    \/ \E f \in FormInputs, id \in GeneratedIds : AddFromPage(f, id)
    \/ \E t \in DeleteImports, r \in BOOLEAN : ImportFromPage(t, r)

SpecDelete == Init /\ [][DeleteNext]_vars

----------------------------------------------------------------------------
(* The status select of the detail modal, with every option it offers *)

\* The options of detailStatusSelect (app.js:654-656)
StatusOptions == DOMAIN STATUS_LABELS

\* The documents imported before a status change
StatusImports ==
    { ArrayText(<< Entry("b777", "up-next", FALSE, JNull),
                   Entry("b777", "wishlist", TRUE, JNum(3)) >>),
      ArrayText(<< Entry("b900", "archived", TRUE, JNull) >>),
      ArrayText(<< Entry("b555", "on-hold", TRUE, JBig), NullEntry >>) }

StatusNext ==
    \/ \E i \in 1..MaxBooks, st \in StatusOptions : ChangeStatus(i, st)
    \/ \E t \in StatusImports, r \in BOOLEAN : DoImport(t, r)

SpecStatus == Init /\ [][StatusNext]_vars

----------------------------------------------------------------------------
(* The book form: add and edit, on the seed data and on imported books *)

\* The documents imported before the form is used
FormImports ==
    { ArrayText(<< >>),
      ArrayText(<< Entry("", "reading", FALSE, JNull) >>),
      ArrayText(<< Entry("b900", "archived", TRUE, JNull) >>),
      ArrayText(<< Entry("b777", "up-next", FALSE, JNull),
                   Entry("b777", "wishlist", TRUE, JNum(3)) >>) }

FormNext ==
    \/ \E f \in FormInputs, id \in GeneratedIds : AddBook(f, id)
    \/ \E i \in 1..MaxBooks, f \in FormInputs : EditBook(i, f)
    \/ \E i \in 1..MaxBooks : DeleteBook(i)
    \/ \E t \in FormImports, r \in BOOLEAN : DoImport(t, r)

SpecForm == Init /\ [][FormNext]_vars

----------------------------------------------------------------------------
(* A reload of the page: the script runs again on what localStorage holds *)

\* The input handler of searchInput, after its debounce (app.js:941-943)
TypeSearch(text) ==
    /\ phase = "ready"
    /\ searchInput' = text
    /\ filtered' = RenderedWith(books, filterState, text)
    /\ UNCHANGED <<bookVars, coverVars, phase, modalVars, popups, filterState, listSortState,
                   currentView, lsView>>

\* The page is loaded again: the document is new (no search text, no modal, no
\* card, no toast, no request that will be answered) and the declarations of
\* app.js:20-36 run; init has not run yet.  localStorage is kept.
Reload ==
    /\ phase # "boot"
    /\ phase' = "boot"
    /\ books' = << >>
    /\ toast' = ""
    /\ filterState' = DefaultFilter
    /\ searchInput' = ""
    /\ listSortState' = [column |-> "title", direction |-> "asc"]
    /\ currentView' = IF lsView # "" THEN lsView ELSE "grid"
    /\ filtered' = NotRendered
    /\ detail' = ""
    /\ confirm' = [active |-> FALSE, id |-> ""]
    /\ cards' = << >>
    /\ calls' = [p \in CallIds |-> IdleCall]
    /\ returned' = IdleCall
    /\ completed' = {}
    /\ popups' = AllClosed
    /\ UNCHANGED <<lsBooks, lsCovers, lsView, exported>>

ReloadNext ==
    \/ \E v \in PillItems.status : ChooseItem("status", v)
    \/ \E v \in {"title", "rating"} : ChooseItem("sort", v)
    \/ \E text \in {"", "UN"} : TypeSearch(text)
    \/ \E view \in {"grid", "list"} : ToggleView(view)
    \/ \E col \in {"title", "rating"} : ClickHeader(col)
    \/ Reload
    \/ InitApp

SpecReload == Init /\ [][ReloadNext]_vars

----------------------------------------------------------------------------
(* The popups of the toolbar: dropdowns, overflow menu and rating legend *)

\* A click on a pill outside its dropdown items (app.js:977-984)
ClickPill(filterKey) ==
    /\ phase = "ready"
    /\ popups' = toggleDropdown(popups, pillConfigs[filterKey].pillId,
                                pillConfigs[filterKey].dropdownId)
    /\ UNCHANGED <<bookVars, coverVars, phase, modalVars, viewVars>>

\* A click on overflowBtn (app.js:994-1002)
ClickOverflow ==
    /\ phase = "ready"
    /\ LET isOpen == popups.overflow
       IN  popups' = [closeAllDropdowns(popups) EXCEPT !.overflow = ~isOpen]
    /\ UNCHANGED <<bookVars, coverVars, phase, modalVars, viewVars>>

\* A click on ratingLegendToggle (app.js:949-955)
ClickLegendToggle ==
    /\ phase = "ready"
    /\ LET isOpen == popups.legend
       IN  popups' = [closeAllDropdowns(popups) EXCEPT !.legend = ~isOpen]
    /\ UNCHANGED <<bookVars, coverVars, phase, modalVars, viewVars>>

\* A click that reaches the document (app.js:1005-1007)
ClickDocument ==
    /\ phase = "ready"
    /\ popups' = closeAllDropdowns(popups)
    /\ UNCHANGED <<bookVars, coverVars, phase, modalVars, viewVars>>

PopupNext ==
    \/ \E k \in DOMAIN pillConfigs : ClickPill(k)
    \/ ClickOverflow
    \/ ClickLegendToggle
    \/ ClickDocument
    \/ Escape
    \/ \E v \in PillItems.status : ChooseItem("status", v)
    \/ \E v \in PillItems.sort : ChooseItem("sort", v)

SpecPopup == Init /\ [][PopupNext]_vars

----------------------------------------------------------------------------
(* The collection: properties *)

\* C1: every book of the collection is in exactly one of the six buckets of
\* renderAll; a finished favorite is in top picks only, a finished book that is
\* no favorite is in finished only.
C1_ExactlyOneBucket ==
    \A i \in DOMAIN books :
        IsObject(books[i]) =>
            /\ Cardinality(BucketsOf(books[i])) = 1
            /\ (books[i].status = "finished" /\ books[i].favorite)
                    => BucketsOf(books[i]) = {"favorites"}
            /\ (books[i].status = "finished" /\ ~books[i].favorite)
                    => BucketsOf(books[i]) = {"completed"}

\* No book is ever in two buckets
AtMostOneBucket ==
    \A i \in DOMAIN books :
        IsObject(books[i]) => Cardinality(BucketsOf(books[i])) <= 1

Ids(bs) == {bs[i].id : i \in DOMAIN bs}

\* The import was carried out: doImport reached its last toast
ImportAccepted(text) ==
    /\ text.kind = "json"
    /\ text.root = "array"
    /\ toast' = ImportedToast(Len(ParseArray(text)))

\* C8: an import in merge mode leaves every existing book unchanged and in its
\* position, adds no imported entry whose id the collection already has, and
\* appends the other imported entries after the existing books, in the order of
\* the import.
C8_MergeKeepsExistingAndAppendsNew ==
    [][\A text \in ImportTexts \cup {exported} :
          DoImport(text, FALSE) =>
              /\ Len(books') >= Len(books)
              /\ SubSeq(books', 1, Len(books)) = books
              /\ \A i \in (Len(books) + 1)..Len(books') : books'[i].id \notin Ids(books)
              /\ ImportAccepted(text) =>
                    SubSeq(books', Len(books) + 1, Len(books')) =
                        SelectSeq(ParseArray(text), LAMBDA b : b.id \notin Ids(books))
      ]_vars

\* A merge of [b002, b777] into a collection that holds b002: b002 is as it was,
\* b777 comes after it
C8_Witness ==
    /\ toast = ImportedToast(2)
    /\ books = << SEED_DATA[2], Entry("b777", "up-next", FALSE, JNull) >>

\* C9: an import of [] in replace mode leaves the collection empty, in memory
\* and in the store, whatever the collection was.
C9_ReplaceWithEmptyArray ==
    [][DoImport(ArrayText(<< >>), TRUE) =>
          /\ books' = << >>
          /\ lsBooks'.present
          /\ lsBooks'.text = ArrayText(<< >>)
          /\ ParseArray(lsBooks'.text) = << >>
      ]_vars

C9_Witness ==
    /\ toast = ImportedToast(0)
    /\ books = << >>
    /\ lsBooks = [present |-> TRUE, text |-> ArrayText(<< >>)]

\* C11: no two books of the collection have the same id, after any sequence of
\* add, edit, delete, status change, import in merge mode and in replace mode.
C11_IdsAreUnique ==
    \A i, j \in DOMAIN books :
        (IsObject(books[i]) /\ IsObject(books[j]) /\ books[i].id = books[j].id)
            => i = j

\* Add, edit, status change and delete make no duplicate id
OnlyImportMakesDuplicates ==
    [][(C11_IdsAreUnique /\ ~C11_IdsAreUnique') =>
          \E t \in ImportTexts, r \in BOOLEAN : DoImport(t, r)]_vars

\* C12: an edit and a status change of a book leave the book's dateAdded as it
\* was before the operation.
C12_DateAddedNeverChanges ==
    [][\A i \in 1..MaxBooks :
          (\/ \E f \in FormInputs : EditBook(i, f)
           \/ \E st \in StatusChoices : ChangeStatus(i, st))
          => /\ books'[i].id = books[i].id
             /\ books'[i].dateAdded = books[i].dateAdded
      ]_vars

\* The same for the books that have a dateAdded
DateAddedKeptWhenSet ==
    [][\A i \in 1..MaxBooks :
          (/\ \/ \E f \in FormInputs : EditBook(i, f)
              \/ \E st \in StatusChoices : ChangeStatus(i, st)
           /\ books[i].dateAdded # "")
          => /\ books'[i].id = books[i].id
             /\ books'[i].dateAdded = books[i].dateAdded
      ]_vars

\* The stored item is the text of an array and decodes to bs
DecodesTo(item, bs) ==
    /\ item.present
    /\ item.text.kind = "json"
    /\ item.text.root = "array"
    /\ ParseArray(item.text) = bs

\* C13: when the seed load, an add, an edit, a delete, a status change or an
\* import has completed, the collection stored under the storage key decodes to
\* exactly the collection in memory.
C13_StoreDecodesToCollection == DecodesTo(lsBooks, books)

\* The same for the collections that hold no non-finite number
PersistedWhenFinite ==
    (\A i \in DOMAIN books : books[i].rating # JInf) => DecodesTo(lsBooks, books)

\* C14: an import of text that is not JSON, or of JSON whose root is no array,
\* shows a notification and changes neither the collection nor the store, in
\* merge mode and in replace mode.
C14_ParseFailureChangesNothing ==
    [][\A r \in BOOLEAN :
          /\ DoImport(InvalidText, r) =>
                (toast' = ImportFailed /\ UNCHANGED <<books, lsBooks>>)
          /\ DoImport(ObjectText, r) =>
                (toast' = InvalidFormat /\ UNCHANGED <<books, lsBooks>>)
      ]_vars

\* The import of a document with an object root was refused
C14_Witness ==
    /\ toast = InvalidFormat
    /\ books = SEED_DATA
    /\ lsBooks = saveBooks(SEED_DATA)

\* The stored collection is text that JSON.parse rejects
MalformedCollection == lsBooks.present /\ lsBooks.text.kind = "invalid"

\* C15: a stored collection and a stored cover cache that are malformed are read
\* as the empty collection and the empty cache, init() runs to its end on the
\* former and fetchCoverForBook starts its lookup on the latter: no read failure
\* is propagated.
C15_ReadFailuresAreRecovered ==
    [][/\ MalformedCollection =>
             loadBooks(lsBooks) = [isArray |-> TRUE, items |-> << >>]
       /\ lsCovers = MalformedCache => loadCoverCache(lsCovers) = EmptyObj
       /\ (MalformedCollection /\ InitApp) =>
             /\ phase' = "ready"
             /\ books' = SEED_DATA
             /\ DecodesTo(lsBooks', books')
       /\ \A i \in DOMAIN cards :
             (lsCovers = MalformedCache /\ Intersect(i)) =>
                 \E p \in CallIds : /\ calls'[p].pc = "await1"
                                    /\ calls'[p].cache = EmptyObj
      ]_vars

\* init() has run and a lookup is in flight that read the malformed cache
C15_Witness ==
    /\ phase = "ready"
    /\ books = SEED_DATA
    /\ lsCovers = MalformedCache
    /\ \E p \in CallIds : calls[p].pc = "await1" /\ calls[p].cache = EmptyObj

Range(seq) == {seq[i] : i \in DOMAIN seq}

\* The place of a book in the collection
IndexIn(bs, b) == CHOOSE i \in DOMAIN bs : bs[i] = b

Rated(b) == b.rating.t = "number"

\* getFilteredBooks has returned and the sort key is rating
SortedByRating == filtered.applied /\ filterState.sort = "rating"

\* C16: with the sort key rating the result is in descending order of rating,
\* every book without rating comes after every rated book, and books of equal
\* rating keep the order they have in the collection.
C16_RatingSortDescendingStable ==
    SortedByRating =>
        LET r == filtered.result
        IN  \A i, j \in DOMAIN r :
                i < j =>
                    /\ (Rated(r[i]) /\ Rated(r[j])) => r[i].rating.n >= r[j].rating.n
                    /\ r[i].rating = JNull => r[j].rating = JNull
                    /\ r[i].rating = r[j].rating
                          => IndexIn(books, r[i]) < IndexIn(books, r[j])

\* A book without rating in front of two books rated 3: the result has the two
\* in their order and the unrated book last
C16_Witness ==
    /\ SortedByRating
    /\ Len(books) = 3
    /\ books[1].rating = JNull
    /\ books[2].rating = JNum(3)
    /\ books[3].rating = JNum(3)
    /\ filtered.result = << books[2], books[3], books[1] >>

\* Only the rating filter is set
OnlyRatingFilter ==
    /\ filtered.applied
    /\ filterState.genre = ""
    /\ filterState.status = ""
    /\ filterState.format = ""
    /\ searchInput = ""

\* C17: with the value "none" the rating filter returns exactly the books that
\* have no rating, with a value 1..5 exactly the books of that rating, and never
\* a book without rating.
C17_RatingFilterModes ==
    /\ (OnlyRatingFilter /\ filterState.rating = "none") =>
            Range(filtered.result) = {b \in Range(books) : b.rating = JNull}
    /\ (OnlyRatingFilter /\ filterState.rating = "3") =>
            Range(filtered.result) = {b \in Range(books) : b.rating = JNum(3)}
    /\ (filtered.applied /\ filterState.rating = "none") =>
            \A b \in Range(filtered.result) : b.rating = JNull
    /\ (filtered.applied /\ filterState.rating = "3") =>
            \A b \in Range(filtered.result) : b.rating = JNum(3)

\* A collection with a rated and an unrated book, filtered for "none"
C17_Witness ==
    /\ OnlyRatingFilter
    /\ filterState.rating = "none"
    /\ \E b \in Range(books) : Rated(b)
    /\ Len(filtered.result) = 2

\* The search text `part` is in the title or in the author, whatever the case
FoundIn(book, part) ==
    \/ includes(toLowerCase(Chars(book.title)), toLowerCase(part))
    \/ includes(toLowerCase(Chars(book.author)), toLowerCase(part))

\* The book satisfies every predicate that is set, `part` being the search text
Satisfies(book, part) ==
    /\ part # << >> => FoundIn(book, part)
    /\ filterState.genre # "" => book.genre = filterState.genre
    /\ filterState.status # "" => book.status = filterState.status
    /\ filterState.format # "" => book.format = filterState.format
    /\ filterState.rating = "none" => book.rating = JNull
    /\ filterState.rating \in {"1", "2", "3", "4", "5"}
          => book.rating = JNum(parseInt(filterState.rating))

\* The result holds exactly the books of the collection that satisfy the
\* predicates, each once, and none for a genre no book has
ExactlyTheMatches(part) ==
    filtered.applied =>
        LET r == filtered.result
        IN  /\ Range(r) = {b \in Range(books) : Satisfies(b, part)}
            /\ \A i, j \in DOMAIN r : r[i] = r[j] => i = j
            /\ filterState.genre = "Poetry" => r = << >>

\* C18 as stated: the search text is matched as it is in the search field
C18_ExactlyTheMatchingBooks == ExactlyTheMatches(Chars(searchInput))

\* C18, amended: the search text is matched without its leading and trailing
\* white space, and a search text of white space alone is no predicate; with
\* that the result is exactly the books that satisfy every predicate set, each
\* once, none from outside the collection, and none for a genre no book has.
C18_ExactlyTheMatchingBooksTrimmed == ExactlyTheMatches(trim(Chars(searchInput)))

\* Search text, genre and format are set and one book of three satisfies them
C18_Witness ==
    /\ filtered.applied
    /\ searchInput = " dune "
    /\ filterState.genre = "Sci-Fi"
    /\ filterState.format = "ebook"
    /\ Len(books) = 3
    /\ Len(filtered.result) = 1

\* C19: a click on a list column header changes listSortState and leaves
\* filterState, with its sort key, as it is; choosing a sort in the sort pill and
\* clearing all filters change filterState and leave listSortState as it is.
C19_SortStatesAreIndependent ==
    [][/\ \A col \in ListColumns :
             ClickHeader(col) =>
                 /\ filterState' = filterState
                 /\ listSortState' # listSortState
       /\ \A v \in PillItems.sort :
             ChooseItem("sort", v) =>
                 /\ listSortState' = listSortState
                 /\ filterState' = [filterState EXCEPT !.sort = v]
       /\ clearAllFilters =>
             /\ listSortState' = listSortState
             /\ filterState' = DefaultFilter
      ]_vars

\* The list is sorted by rating, downwards, while the sort pill says author
C19_Witness ==
    /\ currentView = "list"
    /\ listSortState = [column |-> "rating", direction |-> "desc"]
    /\ filterState.sort = "author"

\* books with the k-th book left out
WithoutIndex(bs, k) == SubSeq(bs, 1, k - 1) \o SubSeq(bs, k + 1, Len(bs))

\* The confirmation removed one book, of the id the dialog was opened for
RemovedTheOneBook ==
    \E k \in DOMAIN books :
        /\ books[k].id = confirm.id
        /\ books' = WithoutIndex(books, k)
        /\ lsBooks' = saveBooks(books')

\* C20: a book is deleted only through the confirmation dialog: opening the
\* dialog, cancelling it and dismissing it leave the collection and the store
\* as they were, and one confirmation removes exactly one book, the book the
\* dialog was last opened for.
C20_DeleteOnlyAfterConfirmation ==
    [][/\ (ClickDelete \/ CancelDelete \/ Escape \/ CloseDetail)
            => UNCHANGED <<books, lsBooks>>
       /\ ConfirmDelete => (confirm.active /\ RemovedTheOneBook)]_vars

\* Opening, cancelling and dismissing the dialog change no book
UnconfirmedChangesNothing ==
    [][(ClickDelete \/ CancelDelete \/ Escape \/ CloseDetail)
          => UNCHANGED <<books, lsBooks>>]_vars

\* With unique ids one confirmation removes one book, the one of the dialog
OneBookRemovedWhenIdsAreUnique ==
    [][(ConfirmDelete /\ C11_IdsAreUnique) => RemovedTheOneBook]_vars

\* A confirmation has emptied a collection of two books of one id
TwoBooksRemoved ==
    /\ toast = "Book deleted"
    /\ books = << >>
    /\ confirm.id = "b777"

\* The fields of a book other than status
OtherFields(b) == DOMAIN b \ {"status"}

\* C21: a status change of a book changes the status field of that book only:
\* its other fields, every other book, the number of books and their order are
\* as before, and the new status is one of the five status values.
C21_StatusChangeMutatesStatusOnly ==
    [][\A i \in 1..MaxBooks, st \in StatusOptions :
          ChangeStatus(i, st) =>
              /\ Len(books') = Len(books)
              /\ \A j \in DOMAIN books : j # i => books'[j] = books[j]
              /\ DOMAIN books'[i] = DOMAIN books[i]
              /\ \A f \in OtherFields(books[i]) : books'[i][f] = books[i][f]
              /\ books'[i].status = st
              /\ st \in {"wishlist", "up-next", "reading", "on-hold", "finished"}]_vars

\* The first of two books of one id was moved to reading, the second was not
C21_Witness ==
    /\ toast = "Moved to Currently Reading"
    /\ Len(books) = 2
    /\ books[1].id = "b777" /\ books[1].status = "reading"
    /\ books[2].id = "b777" /\ books[2].status = "wishlist"

\* Add appended one book, of a new id and of today's date, after the others
AppendedOne(id) ==
    /\ Len(books') = Len(books) + 1
    /\ SubSeq(books', 1, Len(books)) = books
    /\ books'[Len(books')].id = id
    /\ id \notin Ids(books)
    /\ books'[Len(books')].dateAdded = Today

\* Edit replaced the i-th book in place and kept its id
ReplacedInPlace(i) ==
    /\ Len(books') = Len(books)
    /\ books'[i].id = books[i].id
    /\ \A j \in DOMAIN books : j # i => books'[j] = books[j]

\* C22: add appends exactly one book with a newly assigned id and creation date
\* at the end of the collection and leaves the existing books unchanged; edit
\* replaces the book in place (same position, same id), leaves the other books
\* unchanged and does not change the number of books.
C22_AddAppendsEditReplaces ==
    [][/\ \A f \in FormInputs, id \in GeneratedIds :
             AddBook(f, id) => AppendedOne(id)
       /\ \A i \in 1..MaxBooks, f \in FormInputs :
             EditBook(i, f) => ReplacedInPlace(i)]_vars

\* Add appends one book of a new id and of today's date
AddAppendsOne ==
    [][\A f \in FormInputs, id \in GeneratedIds :
          AddBook(f, id) => AppendedOne(id)]_vars

\* The edit of a book whose id is not empty replaces it in place
EditReplacesWhenIdIsSet ==
    [][\A i \in 1..MaxBooks, f \in FormInputs :
          (EditBook(i, f) /\ books[i].id # "") => ReplacedInPlace(i)]_vars

\* The edit of the one book of the collection has left two books
EditHasAdded ==
    /\ toast = "Book added"
    /\ Len(books) = 2
    /\ books[1].id = ""

\* A resolved URL: a string that is not empty
ResolvedUrl(v) == v.t = "string" /\ v.s # ""

\* C23: every value stored in the cover cache is a resolved (non-empty) URL
\* string or the null sentinel, whatever the three strategies come back with,
\* a Google Books result with imageLinks without a thumbnail included.
C23_CacheHoldsUrlOrNull ==
    \A k \in DOMAIN lsCovers.obj :
        lsCovers.obj[k] = JNull \/ ResolvedUrl(lsCovers.obj[k])

\* Strategy 3 stores the empty string when imageLinks hold no thumbnail, and a
\* resolved URL or null after every other answer
OnlyMissingThumbnailStoresEmpty ==
    [][\A p \in CallIds, r \in GBResponses :
          Respond3(p, r) =>
              LET v == lsCovers'.obj[calls[p].key]
              IN  IF r = "nothumb" THEN v = JStr("")
                  ELSE v = JNull \/ ResolvedUrl(v)]_vars

\* A call has stored the empty string for its key
EmptyStringStored ==
    \E k \in DOMAIN lsCovers.obj : lsCovers.obj[k] = JStr("")

\* C24: across a reload of the page the view (grid or list) is the view last
\* selected before it, while the filters, the sort key, the search text and the
\* list sort state are back at their defaults; init changes none of them.
C24_ReloadKeepsViewOnly ==
    [][/\ Reload =>
            /\ currentView' = currentView
            /\ filterState' = [genre |-> "", status |-> "", format |-> "",
                               rating |-> "", sort |-> "dateAdded"]
            /\ searchInput' = ""
            /\ listSortState' = [column |-> "title", direction |-> "asc"]
       /\ InitApp =>
            UNCHANGED <<currentView, filterState, searchInput, listSortState>>]_vars

\* The page was reloaded in the list view and init has run
C24_Witness ==
    /\ phase = "ready"
    /\ toast = ""
    /\ currentView = "list"
    /\ lsView = "list"
    /\ filterState.sort = "dateAdded" /\ filterState.status = ""
    /\ filtered.applied

\* The collection STORAGE_KEY holds: the array its text encodes; none when the
\* item is not set or its text is no JSON
StoredBooks ==
    IF lsBooks.present /\ lsBooks.text.kind = "json" /\ lsBooks.text.root = "array"
    THEN [i \in 1..Len(lsBooks.text.items) |-> ParseEntry(lsBooks.text.items[i])]
    ELSE << >>

\* The store holds an array, or nothing that can be read
ArrayOrNothingStored ==
    ~(lsBooks.present /\ lsBooks.text.kind = "json" /\ lsBooks.text.root # "array")

\* C25: after init the collection in memory is the collection that was stored
\* before the page was loaded; only when nothing is stored or the stored
\* collection is empty does it become the seed data, which is then persisted.
C25_LoadOnStart ==
    [][(InitApp /\ ArrayOrNothingStored) =>
          IF StoredBooks = << >>
          THEN books' = SEED_DATA /\ DecodesTo(lsBooks', SEED_DATA)
          ELSE books' = StoredBooks /\ lsBooks' = lsBooks]_vars

\* init has loaded a stored collection of two books, in the order of the store
C25_Witness ==
    /\ phase = "ready"
    /\ toast = ""
    /\ books = << SEED_DATA[2], SEED_DATA[1] >>
    /\ lsBooks = saveBooks(books)

\* The other direction
Flipped(direction) == IF direction = "asc" THEN "desc" ELSE "asc"

\* C26: a click on the header of the column that is the sort column of the list
\* toggles the direction and keeps the column; a click on another header makes
\* that column the sort column with direction asc.  In every reachable state
\* the column is one of the six table columns and the direction is asc or desc.
C26_HeaderClickTransitions ==
    /\ [](/\ listSortState.column \in
                {"title", "author", "genre", "rating", "status", "format"}
          /\ listSortState.direction \in {"asc", "desc"})
    /\ [][\A col \in ListColumns :
            ClickHeader(col) =>
                IF listSortState.column = col
                THEN /\ listSortState'.column = col
                     /\ listSortState'.direction = Flipped(listSortState.direction)
                ELSE /\ listSortState'.column = col
                     /\ listSortState'.direction = "asc"]_vars

\* The list is sorted by format, descending: its header was clicked twice
C26_Witness ==
    /\ currentView = "list"
    /\ listSortState = [column |-> "format", direction |-> "desc"]

\* C27: whenever doImport ends with the notification 'Import failed', the
\* collection in memory and the stored collection are as they were before the
\* import, for every parsed input (an array with a null entry included), in
\* merge mode and in replace mode.
C27_FailedImportChangesNothing ==
    [][\A t \in ImportTexts \cup {exported}, r \in BOOLEAN :
          (DoImport(t, r) /\ toast' = ImportFailed) =>
              UNCHANGED <<books, lsBooks>>]_vars

\* In merge mode a failed import changes nothing
FailedMergeChangesNothing ==
    [][\A t \in ImportTexts \cup {exported} :
          (DoImport(t, FALSE) /\ toast' = ImportFailed) =>
              UNCHANGED <<books, lsBooks>>]_vars

\* An import in replace mode has failed and left its document as the collection
FailedImportStored ==
    /\ toast = ImportFailed
    /\ books = << NullEntry >>
    /\ lsBooks = saveBooks(books)

\* The popups that are open
OpenPopups ==
    popups.dropdowns
        \cup (IF popups.overflow THEN {"overflowDropdown"} ELSE {})
        \cup (IF popups.legend THEN {"ratingLegend"} ELSE {})

\* C28: at most one of the filter dropdowns, the overflow dropdown and the
\* rating legend is open at a time, a pill has the open state only when its own
\* dropdown is open, and a click on the control of an open popup closes it.
C28_AtMostOnePopupOpen ==
    /\ [](/\ Cardinality(OpenPopups) <= 1
          /\ \A k \in DOMAIN pillConfigs :
                pillConfigs[k].pillId \in popups.pills
                    => pillConfigs[k].dropdownId \in popups.dropdowns)
    /\ [][/\ \A k \in DOMAIN pillConfigs :
              (ClickPill(k) /\ pillConfigs[k].dropdownId \in popups.dropdowns)
                  => pillConfigs[k].dropdownId \notin popups'.dropdowns
          /\ (ClickOverflow /\ popups.overflow) => ~popups'.overflow
          /\ (ClickLegendToggle /\ popups.legend) => ~popups'.legend]_vars

\* The sort dropdown is open, after a status was chosen in another dropdown
C28_Witness ==
    /\ popups.dropdowns = {"sortByDropdown"}
    /\ popups.pills = {"sortByPill"}
    /\ ~popups.overflow /\ ~popups.legend
    /\ filterState.status = "finished"

\* Export changes neither the collection nor the store
ExportLeavesState == [][ExportBooks => UNCHANGED <<books, lsBooks>>]_vars

\* C10: exporting a collection and importing the exported document in replace
\* mode gives the same books in the same order with the same field values, and
\* the export changes neither the collection nor the store.
C10_ExportImportRoundTrip ==
    [][/\ ExportBooks => UNCHANGED <<books, lsBooks>>
       /\ (exported = Stringify(books) /\ DoImport(exported, TRUE))
              => books' = books
      ]_vars

----------------------------------------------------------------------------
(* Cover resolver: properties *)

InFlight(p) == calls[p].pc # "idle"

StoredCache == loadCoverCache(lsCovers)

\* C2: once fetchCoverForBook has returned for a (title, author) pair, a later
\* call with the same title and author is a cache hit: it issues no request.
C2_RepeatCallIssuesNoRequest ==
    /\ \A p \in CallIds : InFlight(p) => ~calls[p].late
    /\ (returned.pc = "done" /\ returned.late) => returned.reqs = << >>

\* C3: at any moment at most one lookup is in flight for a given cache key.
C3_OneLookupInFlightPerKey ==
    \A p, q \in CallIds :
        (p # q /\ InFlight(p) /\ InFlight(q)) => calls[p].key # calls[q].key

\* C4: an entry of the stored cover cache stays, with its value, in every later
\* state of the stored cache; the key the returning call itself writes aside, so
\* that only calls for different keys are concerned.
C4_StoredEntriesStay ==
    [][\A k \in DOMAIN StoredCache :
          \/ k = returned'.key /\ returned' # returned
          \/ /\ k \in DOMAIN StoredCache'
             /\ StoredCache'[k] = StoredCache[k]]_vars

\* The call in slot p returns in this step
Returns(p) == InFlight(p) /\ ~InFlight(p)'

\* No strategy of the call that returned last came back with a cover
FoundNoCover ==
    /\ returned.pc = "done"
    /\ Len(returned.outs) = 3
    /\ returned.outs[1] # "key"
    /\ returned.outs[2] # "key"
    /\ returned.outs[3] # "thumb"

\* C5: when all three strategies find no cover, the key is stored with null, the
\* entry is there when the cache is loaded from storage again, a call for the key
\* then returns null as a hit, and createBookCard does not mark the card.
C5_NegativeResultIsCached ==
    [][\A p \in CallIds :
          (Returns(p) /\ FoundNoCover') =>
              /\ returned'.url = JNull
              /\ returned'.key \in DOMAIN StoredCache'
              /\ StoredCache'[returned'.key] = JNull
              /\ \A i \in DOMAIN books :
                    CacheKey(books[i]) = returned'.key => ~needsCover(books[i], lsCovers')]_vars

\* A call record obeys the order of the strategies
InOrder(c) ==
    /\ c.reqs \in {<< >>, <<1>>, <<1, 2>>, <<1, 2, 3>>}
    /\ Len(c.outs) <= Len(c.reqs)
    /\ Len(c.reqs) >= 2 => ~Truthy(OLUrl(1, c.outs[1]))
    /\ Len(c.reqs) >= 3 => ~Truthy(OLUrl(2, c.outs[2]))
    /\ (c.pc = "done" /\ c.reqs # << >>) =>
          /\ Len(c.outs) = Len(c.reqs)
          /\ CASE c.outs[1] = "key" -> c.reqs = <<1>> /\ c.url = OLUrl(1, "key")
               [] c.outs[1] # "key" /\ c.outs[2] = "key" ->
                      c.reqs = <<1, 2>> /\ c.url = OLUrl(2, "key")
               [] OTHER ->
                      /\ c.reqs = <<1, 2, 3>>
                      /\ c.outs[3] = "thumb" => c.url = JStr("https://books.google.com/thumb")
                      /\ c.outs[3] # "thumb" => ~Truthy(c.url)

\* C6: on a miss the strategies are requested in the order 1, 2, 3; strategy 2
\* only after strategy 1 gave no URL, strategy 3 only after 1 and 2 gave none; the
\* call returns the URL of the first strategy that gave one.
C6_StrategiesInOrder ==
    /\ InOrder(returned)
    /\ \A p \in CallIds : InOrder(calls[p])

C6_Witness ==
    /\ returned.pc = "done"
    /\ returned.reqs = <<1, 2>>
    /\ returned.outs = <<"error", "key">>
    /\ returned.url = OLUrl(2, "key")

\* C7: whatever fails, a call whose requests are all answered or fail returns,
\* and when it returns the stored cache holds an entry for its key: the value it
\* returns, which is null when every strategy failed.
C7_FailuresAreNotFatal ==
    /\ \A p \in CallIds : InFlight(p) ~> ~InFlight(p)
    /\ [][\A p \in CallIds :
             Returns(p) =>
                /\ returned'.pc = "done"
                /\ returned'.key = calls[p].key
                /\ returned'.key \in DOMAIN StoredCache'
                /\ StoredCache'[returned'.key] = returned'.url
                /\ returned'.outs = <<"error", "error", "error">> =>
                       returned'.url = JNull]_vars

C7_Witness ==
    /\ returned.pc = "done"
    /\ returned.outs = <<"error", "error", "error">>
    /\ returned.url = JNull
    /\ returned.key \in DOMAIN StoredCache
    /\ StoredCache[returned.key] = JNull

====
